---- MODULE Spec2Model ----
(***************************************************************************)
(* A model of ignition::common::EventT / Event / Connection (src/src/      *)
(* Event.hh): the connection map, the deferred-removal list, the mutex of  *)
(* Cleanup, the per-statement steps of Signal, Cleanup and Disconnect as   *)
(* two threads (and callbacks, re-entrantly) interleave them.              *)
(*                                                                         *)
(* An iterator of std::map is modelled by the key of the node it points    *)
(* at, End for connections.end().  A node whose key is no longer in        *)
(* `connections` is freed memory: any use of an iterator to it is          *)
(* undefined behaviour, modelled as a choice among the outcomes below.     *)
(* Callback arguments are ints (trivially copyable), as in EventT<void(int)>.*)
(***************************************************************************)
EXTENDS Integers, Sequences, FiniteSets, TLC

\* ---------------------------------------------------------------- bounds
MaxIds == 2        \* connections Connect may issue
MaxSignals == 2    \* Signal calls in progress at once, nested or in two threads
MaxRemove == 2     \* Disconnect calls are started while the list is shorter
MaxOps == 6        \* calls made in a run (Connect, Disconnect, Signal, handle operations, ...)

Threads == {1, 2}
Ids == 0 .. (MaxIds - 1)
CopySlot == MaxIds  \* the Connection object a copy makes
Handles == Ids \cup {CopySlot}
Args == {5, 7}
End == -1          \* connections.end(), the iterator of no node
NoHolder == 0      \* the mutex is free

VARIABLES
  connections,          \* keys of EvtConnectionMap connections
  on,                   \* EventConnection::on of each node (stale once freed)
  connectionsToRemove,  \* std::list of iterators, by key
  mutex,                \* holder of EventT::mutex, NoHolder when free
  signaled,             \* Event::signaled
  nextId,               \* id the next Connect issues
  issued,               \* ids Connect has returned, in order
  handle,               \* the Connection objects: one per id, and one copy
  stack,                \* per thread: its Signal calls in progress, innermost last
  call,                 \* per thread: its Disconnect call in progress
  result,               \* per thread: how its last finished Signal ended
  returned,             \* ids for which a Disconnect (or ~Connection) returned
  crashed,              \* the process ended abnormally
  ops,                  \* calls made so far
  record,               \* bookkeeping: what the run records of each Signal call
  destroyed             \* ~EventT has run

vars == <<connections, on, connectionsToRemove, mutex, signaled,
          nextId, issued, handle, stack, call, result, returned, crashed, ops, record, destroyed>>

eventVars == <<connections, on, connectionsToRemove, signaled>>

\* ------------------------------------------------------- pure operations

Min(S) == CHOOSE x \in S : \A y \in S : x <= y

\* connections.begin()
Begin(conns) == IF conns = {} THEN End ELSE Min(conns)

\* ++iter on a node that is in the map: the next greater key, or end()
Successor(conns, it) ==
  LET above == {k \in conns : k > it} IN
  IF above = {} THEN End ELSE Min(above)

\* connections.find(_id)
Find(conns, id) == IF id \in conns THEN id ELSE End

\* ConnectionCount(): connections.size()
ConnectionCount == Cardinality(connections)

\* The nodes that can lie in the storage of the freed node it: those that
\* Connect allocated after that node was freed
Reusing(conns, it) ==
  {k \in conns :
     \E j \in 1 .. Len(issued) :
       /\ issued[j].id = k
       /\ it \notin issued[j].present
       /\ \E i \in 1 .. (j - 1) : issued[i].id = it}

\* connections.erase(it).  On a freed node the call is undefined: the
\* process aborts, or the erase of the stale node, which no longer is in
\* the tree, leaves the entries of the map as they are, or the storage is
\* that of a newer node by now and it is this node that is erased.
EraseOutcomes(conns, it) ==
  IF it \in conns
  THEN {[crash |-> FALSE, connections |-> conns \ {it}]}
  ELSE {[crash |-> TRUE, connections |-> conns],
        [crash |-> FALSE, connections |-> conns]}
       \cup {[crash |-> FALSE, connections |-> conns \ {k}] : k \in Reusing(conns, it)}

\* iter.second->on read by Signal.  On a freed node the read is undefined:
\* the process aborts, the stale flag reads false, or the freed bytes read
\* true and the destroyed callback is called.
DerefOutcomes(conns, onf, it) ==
  IF it \in conns
  THEN {IF onf[it] THEN "invoke" ELSE "skip"}
  ELSE {"crash", "skip", "invoke"}

\* ++iter of Signal's loop.  On a freed node it is undefined: the process
\* aborts, or the stale links lead to a later node of the map or to end().
AdvanceOutcomes(conns, it) ==
  IF it \in conns
  THEN {[crash |-> FALSE, it |-> Successor(conns, it)]}
  ELSE {[crash |-> TRUE, it |-> it],
        [crash |-> FALSE, it |-> Successor(conns, it)],
        [crash |-> FALSE, it |-> End]}

\* event->Disconnect(id) made by a Connection whose event has been
\* destroyed.  The call is undefined: the process aborts, or it runs on the
\* dead object, whose map clear() left empty, finds nothing and returns.
DeadEventOutcomes(dead) == IF dead THEN {"crash", "returns"} ELSE {"returns"}

\* it->second->on = false in Disconnect.  On a freed node the store is
\* undefined: the process aborts, or the store lands in freed memory.
MarkOutcomes(conns, it) ==
  IF it \in conns THEN {"stored"} ELSE {"crash", "stored"}

\* ------------------------------------------------------------ the state

\* How a thread's last Signal call ended, and at which callback it threw
NoResult == [how |-> "none", at |-> End]

NoCall == [op |-> "none", id |-> End, it |-> End, h |-> End]

\* A Connection as its member initialisers leave it: event = nullptr, id = -1
NoHandle == [st |-> "none", event |-> FALSE, id |-> -1]

Init ==
  /\ connections = {}
  /\ on = [i \in Ids |-> FALSE]
  /\ connectionsToRemove = <<>>
  /\ mutex = NoHolder
  /\ signaled = FALSE
  /\ nextId = 0
  /\ issued = <<>>
  /\ handle = [h \in Handles |-> NoHandle]
  /\ stack = [t \in Threads |-> <<>>]
  /\ call = [t \in Threads |-> NoCall]
  /\ result = [t \in Threads |-> NoResult]
  /\ returned = {}
  /\ crashed = FALSE
  /\ ops = 0
  /\ record \in {"calls", "starts"}
  /\ destroyed = FALSE

Depth(t) == Len(stack[t])
Top(t) == stack[t][Len(stack[t])]

\* A thread can make a call: from outside any Signal, or from the body of
\* the callback its innermost Signal is running.
Free(t) ==
  /\ ~crashed
  /\ ops < MaxOps
  /\ call[t].op = "none"
  /\ IF Depth(t) = 0 THEN TRUE ELSE Top(t).pc = "incb"

\* A thread can make a call on the event: the event has not been destroyed
Ready(t) == Free(t) /\ ~destroyed

\* A Signal of thread t is at its step pc.
At(t, pc) ==
  /\ ~crashed
  /\ call[t].op = "none"
  /\ Depth(t) > 0
  /\ Top(t).pc = pc

\* Bookkeeping: a step of a call taken while other Signal calls are in
\* progress makes those calls ones that did not run alone.
Disturbed(stk, t, keepTop) ==
  [u \in Threads |->
    [i \in 1 .. Len(stk[u]) |->
      IF u = t /\ i = Len(stk[u]) /\ keepTop
      THEN stk[u][i]
      ELSE [stk[u][i] EXCEPT !.quiet = FALSE]]]

SetTop(stk, t, f) == [stk EXCEPT ![t][Len(stk[t])] = f]

\* The stack after a step of thread t's innermost Signal that leaves it as f
StepTop(t, f) == SetTop(Disturbed(stack, t, TRUE), t, f)

\* The stack after thread t's innermost Signal has left
Popped(t) == [Disturbed(stack, t, TRUE) EXCEPT ![t] = SubSeq(@, 1, Len(@) - 1)]

\* --------------------------------------------------------------- Connect

\* ConnectId with the id taken from the map's last key, so that the id of an
\* erased last entry is issued again
ConnectIdReused(n) ==
  IF connections = {} THEN 0 ELSE (CHOOSE k \in connections : \A j \in connections : j <= k) + 1

\* The id Connect issues: id = nextId++
ConnectId(n) == n

\* Connect mutates connections under the mutex: it waits while a Cleanup
\* holds it
Connect(t) ==
  /\ Ready(t)
  /\ mutex = NoHolder
  /\ nextId < MaxIds
  /\ LET id == ConnectId(nextId) IN
     /\ connections' = connections \cup {id}
     /\ on' = [on EXCEPT ![id] = TRUE]
     /\ issued' = Append(issued, [id |-> id, present |-> connections])
     /\ handle' = [handle EXCEPT ![id] = [st |-> "live", event |-> TRUE, id |-> id]]
  /\ nextId' = nextId + 1
  /\ ops' = ops + 1
  /\ stack' = Disturbed(stack, t, FALSE)
  /\ UNCHANGED <<connectionsToRemove, mutex, signaled, call, result, returned, crashed, record, destroyed>>

\* ------------------------------------------------------------ Disconnect

\* it->second->on = false
DisconnectStore(onf, it) == [onf EXCEPT ![it] = FALSE]

\* this->connectionsToRemove.push_back(it)
DisconnectPush(list, it) == Append(list, it)

\* EventT::Disconnect is entered: find(_id)
BeginDisconnect(t, id, h) ==
  /\ Len(connectionsToRemove) < MaxRemove
  /\ call' = [call EXCEPT ![t] = [op |-> "found", id |-> id,
                                  it |-> Find(connections, id), h |-> h]]
  /\ ops' = ops + 1
  /\ stack' = Disturbed(stack, t, FALSE)

Disconnect(t, id) ==
  /\ Ready(t)
  /\ BeginDisconnect(t, id, End)
  /\ UNCHANGED <<connections, on, connectionsToRemove, mutex, signaled,
                 nextId, issued, handle, result, returned, crashed, record, destroyed>>

\* The Connection of id h is destroyed:
\* if (this->event && this->id >= 0) this->event->Disconnect(this->id)
DropHandle(t, h) ==
  /\ Free(t)
  /\ handle[h].st = "live"
  /\ IF handle[h].event /\ handle[h].id >= 0
     THEN /\ BeginDisconnect(t, handle[h].id, h)
          /\ handle' = [handle EXCEPT ![h].st = "dtor"]
     ELSE /\ handle' = [handle EXCEPT ![h].st = "gone"]
          /\ ops' = ops + 1
          /\ stack' = Disturbed(stack, t, FALSE)
          /\ UNCHANGED call
  /\ UNCHANGED <<connections, on, connectionsToRemove, mutex, signaled,
                 nextId, issued, result, returned, crashed, record, destroyed>>

\* The handles after the call c has returned: ~Connection goes on with
\* this->id = -1; this->event = nullptr
HandleAfter(c) ==
  IF c.h = End THEN handle
  ELSE [handle EXCEPT ![c.h] = [st |-> IF @.st = "dtor" THEN "gone" ELSE @.st,
                                event |-> FALSE, id |-> -1]]

\* The stack after thread t's Disconnect of id has returned: the callback
\* that was running for id itself has disconnected its own connection
AfterDisconnect(t, id) ==
  LET stk == Disturbed(stack, t, FALSE) IN
  IF record = "starts" /\ Depth(t) > 0 /\ Top(t).it = id
  THEN SetTop(stk, t, [stk[t][Len(stk[t])] EXCEPT !.self = @ \cup {id}])
  ELSE stk

\* The calls that have returned, when the run records them
Returned(id) == IF record = "starts" THEN returned \cup {id} ELSE returned

\* if (it != end) { it->second->on = false; connectionsToRemove.push_back(it); }
DisconnectMark(t) ==
  /\ ~crashed
  /\ call[t].op = "found"
  /\ LET c == call[t] IN
     IF c.it = End
     THEN \E o \in DeadEventOutcomes(destroyed) :
          IF o = "crash"
          THEN /\ crashed' = TRUE
               /\ UNCHANGED <<on, connectionsToRemove, call, handle, returned, stack>>
          ELSE /\ UNCHANGED <<on, connectionsToRemove, crashed>>
               /\ call' = [call EXCEPT ![t] = NoCall]
               /\ handle' = HandleAfter(c)
               /\ returned' = Returned(c.id)
               /\ stack' = AfterDisconnect(t, c.id)
     ELSE \E o \in MarkOutcomes(connections, c.it) :
          IF o = "crash"
          THEN /\ crashed' = TRUE
               /\ UNCHANGED <<on, connectionsToRemove, call, handle, returned, stack>>
          ELSE /\ on' = DisconnectStore(on, c.it)
               /\ connectionsToRemove' = DisconnectPush(connectionsToRemove, c.it)
               /\ call' = [call EXCEPT ![t] = NoCall]
               /\ handle' = HandleAfter(c)
               /\ returned' = Returned(c.id)
               /\ stack' = AfterDisconnect(t, c.id)
               /\ UNCHANGED crashed
  /\ UNCHANGED <<connections, mutex, signaled, nextId, issued, result, ops, record, destroyed>>

\* Revoke() of the handle h, the object staying alive: the body of
\* ~Connection, the check first and the fields cleared once Disconnect is back
Revoke(t, h) ==
  /\ Free(t)
  /\ handle[h].st = "live"
  /\ IF handle[h].event /\ handle[h].id >= 0
     THEN BeginDisconnect(t, handle[h].id, h)
     ELSE /\ ops' = ops + 1
          /\ stack' = Disturbed(stack, t, FALSE)
          /\ UNCHANGED call
  /\ UNCHANGED <<connections, on, connectionsToRemove, mutex, signaled, nextId,
                 issued, handle, result, returned, crashed, record, destroyed>>

\* Connection(const Connection &), implicitly defined: the copy holds the
\* event and the id of h, and h keeps them.  A move is this copy too.
CopyHandle(t, h) ==
  /\ Free(t)
  /\ handle[h].st = "live"
  /\ handle[CopySlot].st = "none"
  /\ handle' = [handle EXCEPT ![CopySlot] = handle[h]]
  /\ ops' = ops + 1
  /\ UNCHANGED <<connections, on, connectionsToRemove, mutex, signaled, nextId,
                 issued, stack, call, result, returned, crashed, record, destroyed>>

\* ~EventT, with no call on the event in progress: connections.clear()
\* and the members are destroyed
DestroyEvent(t) ==
  /\ Ready(t)
  /\ \A u \in Threads : stack[u] = <<>> /\ call[u].op = "none"
  /\ destroyed' = TRUE
  /\ connections' = {}
  /\ connectionsToRemove' = <<>>
  /\ ops' = ops + 1
  /\ UNCHANGED <<on, mutex, signaled, nextId, issued, handle, stack, call,
                 result, returned, crashed, record>>

\* Event::SetSignaled(_sig), a public member
SetSignaled(t, b) ==
  /\ Ready(t)
  /\ signaled' = b
  /\ ops' = ops + 1
  /\ UNCHANGED <<connections, on, connectionsToRemove, mutex, nextId, issued,
                 handle, stack, call, result, returned, crashed, record, destroyed>>

\* ---------------------------------------------------------------- Signal

NewFrame(t, a) ==
  [pc |-> "lock", ci |-> 1, it |-> End, arg |-> a, inv |-> <<>>, self |-> {},
   quiet |-> /\ record = "calls"
             /\ \A u \in Threads : stack[u] = <<>> /\ call[u].op = "none",
   startNext |-> IF record = "starts" THEN nextId ELSE 0,
   startReturned |-> IF record = "starts" THEN returned ELSE {}]

\* Signal(args) is called
Signal(t, a) ==
  /\ Ready(t)
  /\ Depth(1) + Depth(2) < MaxSignals
  /\ (record = "starts") => a = Min(Args)
  /\ stack' = [Disturbed(stack, t, FALSE) EXCEPT ![t] = Append(@, NewFrame(t, a))]
  /\ result' = [result EXCEPT ![t] = NoResult]
  /\ ops' = ops + 1
  /\ UNCHANGED <<connections, on, connectionsToRemove, mutex, signaled,
                 nextId, issued, handle, call, returned, crashed, record, destroyed>>

\* Cleanup: std::lock_guard<std::mutex> lock(this->mutex)
CleanupLock(t) ==
  /\ At(t, "lock")
  /\ mutex = NoHolder
  /\ mutex' = t
  /\ stack' = StepTop(t, [Top(t) EXCEPT !.pc = "erase"])
  /\ UNCHANGED <<connections, on, connectionsToRemove, signaled,
                 nextId, issued, handle, call, result, returned, crashed, ops, record, destroyed>>

\* Cleanup: one turn of  for (auto &conn : connectionsToRemove) erase(conn)
CleanupErase(t) ==
  /\ At(t, "erase")
  /\ Top(t).ci <= Len(connectionsToRemove)
  /\ \E o \in EraseOutcomes(connections, connectionsToRemove[Top(t).ci]) :
       /\ crashed' = o.crash
       /\ connections' = o.connections
       /\ stack' = IF o.crash THEN stack
                   ELSE StepTop(t, [Top(t) EXCEPT !.ci = @ + 1])
  /\ UNCHANGED <<on, connectionsToRemove, mutex, signaled, nextId, issued,
                 handle, call, result, returned, ops, record, destroyed>>

\* Cleanup: the loop's iterator has reached connectionsToRemove.end()
CleanupLoopEnd(t) ==
  /\ At(t, "erase")
  /\ Top(t).ci > Len(connectionsToRemove)
  /\ stack' = StepTop(t, [Top(t) EXCEPT !.pc = "clear", !.ci = 1])
  /\ UNCHANGED <<connections, on, connectionsToRemove, mutex, signaled, nextId,
                 issued, handle, call, result, returned, crashed, ops, record, destroyed>>

\* CleanupClear with the mutex still held when Cleanup has returned
CleanupClearKeepsLock(t) ==
  /\ At(t, "clear")
  /\ connectionsToRemove' = <<>>
  /\ stack' = StepTop(t, [Top(t) EXCEPT !.pc = "begin"])
  /\ UNCHANGED <<connections, on, mutex, signaled, nextId, issued,
                 handle, call, result, returned, crashed, ops, record, destroyed>>

\* Cleanup: connectionsToRemove.clear(); the lock_guard releases the mutex
CleanupClear(t) ==
  /\ At(t, "clear")
  /\ connectionsToRemove' = <<>>
  /\ mutex' = NoHolder
  /\ stack' = StepTop(t, [Top(t) EXCEPT !.pc = "begin"])
  /\ UNCHANGED <<connections, on, signaled, nextId, issued,
                 handle, call, result, returned, crashed, ops, record, destroyed>>

\* SignalBegin with SetSignaled(true) left out
SignalBeginLeavesFlag(t) ==
  /\ At(t, "begin")
  /\ stack' = StepTop(t, [Top(t) EXCEPT !.pc = "loop", !.it = Begin(connections)])
  /\ UNCHANGED <<connections, on, connectionsToRemove, mutex, signaled,
                 nextId, issued, handle, call, result, returned, crashed, ops, record, destroyed>>

\* SetSignaled(true); the range-for takes connections.begin()
SignalBegin(t) ==
  /\ At(t, "begin")
  /\ signaled' = TRUE
  /\ stack' = StepTop(t, [Top(t) EXCEPT !.pc = "loop", !.it = Begin(connections)])
  /\ UNCHANGED <<connections, on, connectionsToRemove, mutex,
                 nextId, issued, handle, call, result, returned, crashed, ops, record, destroyed>>

\* The loop is at end(): Signal returns
SignalReturn(t) ==
  /\ At(t, "loop")
  /\ Top(t).it = End
  /\ stack' = Popped(t)
  /\ result' = [result EXCEPT ![t] = [how |-> "ok", at |-> End]]
  /\ UNCHANGED <<connections, on, connectionsToRemove, mutex, signaled,
                 nextId, issued, handle, call, returned, crashed, ops, record, destroyed>>

\* The frame after  if (iter.second->on) iter.second->callback(args...)
\* found the flag set: the callback is running
Invoked(f, live) ==
  [f EXCEPT !.pc = "incb",
            !.inv = Append(@, [id |-> f.it, arg |-> f.arg, live |-> live])]

\* One turn of the loop at a node: the flag is read; the callback is entered,
\* or the node is passed over with ++iter
SignalVisit(t) ==
  /\ At(t, "loop")
  /\ Top(t).it /= End
  /\ LET f == Top(t) IN
     \E d \in DerefOutcomes(connections, on, f.it) :
       CASE d = "crash" ->
              /\ crashed' = TRUE
              /\ UNCHANGED stack
         [] d = "invoke" ->
              /\ stack' = StepTop(t, Invoked(f, f.it \in connections))
              /\ UNCHANGED crashed
         [] OTHER ->
              \E a \in AdvanceOutcomes(connections, f.it) :
                /\ crashed' = a.crash
                /\ stack' = IF a.crash THEN stack
                            ELSE StepTop(t, [f EXCEPT !.it = a.it])
  /\ UNCHANGED <<connections, on, connectionsToRemove, mutex, signaled,
                 nextId, issued, handle, call, result, returned, ops, record, destroyed>>

\* The callback returns and the loop does ++iter
CallbackReturn(t) ==
  /\ At(t, "incb")
  /\ \E a \in AdvanceOutcomes(connections, Top(t).it) :
       /\ crashed' = a.crash
       /\ stack' = IF a.crash THEN stack
                   ELSE StepTop(t, [Top(t) EXCEPT !.pc = "loop", !.it = a.it])
  /\ UNCHANGED <<connections, on, connectionsToRemove, mutex, signaled,
                 nextId, issued, handle, call, result, returned, ops, record, destroyed>>

\* The callback ends by throwing
CallbackThrow(t) ==
  /\ At(t, "incb")
  /\ stack' = StepTop(t, [Top(t) EXCEPT !.pc = "raised"])
  /\ UNCHANGED <<connections, on, connectionsToRemove, mutex, signaled,
                 nextId, issued, handle, call, result, returned, crashed, ops, record, destroyed>>

\* SignalUnwind with the exception caught inside the loop, which goes on
SignalSwallows(t) ==
  /\ At(t, "raised")
  /\ stack' = StepTop(t, [Top(t) EXCEPT !.pc = "loop",
                                          !.it = Successor(connections, Top(t).it)])
  /\ UNCHANGED <<connections, on, connectionsToRemove, mutex, signaled, nextId,
                 issued, handle, call, result, returned, crashed, ops, record, destroyed>>

\* Signal has no handler: the exception leaves it, to its caller
SignalUnwind(t) ==
  /\ At(t, "raised")
  /\ stack' = Popped(t)
  /\ result' = [result EXCEPT ![t] = [how |-> "error", at |-> Top(t).it]]
  /\ UNCHANGED <<connections, on, connectionsToRemove, mutex, signaled,
                 nextId, issued, handle, call, returned, crashed, ops, record, destroyed>>

\* ------------------------------------------------------------------ Next

Next ==
  \E t \in Threads :
    \/ Connect(t)
    \/ \E id \in 0 .. (nextId - 1) : Disconnect(t, id)
    \/ \E h \in Handles : DropHandle(t, h)
    \/ \E h \in Handles : Revoke(t, h)
    \/ \E h \in Ids : CopyHandle(t, h)
    \/ DestroyEvent(t)
    \/ DisconnectMark(t)
    \/ \E a \in Args : Signal(t, a)
    \/ CleanupLock(t)
    \/ CleanupErase(t)
    \/ CleanupLoopEnd(t)
    \/ CleanupClear(t)
    \/ SignalBegin(t)
    \/ SignalVisit(t)
    \/ SignalReturn(t)
    \/ CallbackReturn(t)
    \/ CallbackThrow(t)
    \/ SignalUnwind(t)

Spec == Init /\ [][Next]_vars

\* The same with every public member of Event callable: SetSignaled too
InitPublic == Init /\ record = "starts"

NextPublic == Next \/ \E t \in Threads : \E b \in BOOLEAN : SetSignaled(t, b)

SpecPublic == InitPublic /\ [][NextPublic]_vars

\* ---------------------------------------------------------------- claims

Frames == {[t |-> t, i |-> i] : t \in Threads, i \in 1 .. MaxSignals}
Live(x) == x.i <= Len(stack[x.t])
FrameOf(x) == stack[x.t][x.i]

\* A Signal call that has left Cleanup and has not returned: its range-for
\* holds an iterator into connections
Iterating(f) == f.pc \in {"loop", "incb", "raised"}

InvIds(f) == [k \in 1 .. Len(f.inv) |-> f.inv[k].id]

\* Some Signal call is iterating the map
SomePassIterating == \E x \in Frames : Live(x) /\ Iterating(FrameOf(x))

\* The step erases an entry of the map
ErasesEntry == connections' /= connections /\ connections' \subseteq connections

\* C1: under every interleaving of Connect, Disconnect, handle drop and
\* Signal (from another thread or from a callback), no entry is erased from
\* connections while a Signal call is iterating the map, and no Signal call
\* invokes the callback of an entry that has been erased.
C1_NoEraseUnderIteration ==
  [][/\ ErasesEntry => ~SomePassIterating
     /\ \A x \in Frames :
          (x.i <= Len(stack'[x.t])) =>
             \A k \in 1 .. Len(stack'[x.t][x.i].inv) : stack'[x.t][x.i].inv[k].live
    ]_vars

\* C2: once a Disconnect of id (or the destruction of its Connection) has
\* returned, no Signal call that starts afterwards invokes the callback of id.
C2_NoInvokeAfterDisconnect ==
  \A x \in Frames :
    Live(x) =>
      \A k \in 1 .. Len(FrameOf(x).inv) :
        FrameOf(x).inv[k].id \notin FrameOf(x).startReturned

\* C2 witness: a Signal that started after the Disconnect of the first
\* connection had returned has invoked the second connection's callback and
\* has finished its loop.
C2_Witness ==
  \E x \in Frames :
    /\ Live(x)
    /\ 0 \in FrameOf(x).startReturned
    /\ FrameOf(x).pc = "loop" /\ FrameOf(x).it = End
    /\ InvIds(FrameOf(x)) = <<1>>

\* The ids of S in ascending order
RECURSIVE Ascending(_)
Ascending(S) ==
  IF S = {} THEN <<>> ELSE <<Min(S)>> \o Ascending(S \ {Min(S)})

\* The nodes a Signal call's loop has been through
Passed(f) ==
  {k \in connections :
     \/ f.it = End
     \/ k < f.it
     \/ (k = f.it /\ f.pc \in {"incb", "raised"})}

\* What a Signal call that ran alone has invoked so far: the enabled
\* connections its loop has been through, in ascending id order, each once,
\* with the arguments of the call
ExpectedInv(f) ==
  LET ids == Ascending({k \in Passed(f) : on[k]}) IN
  [k \in 1 .. Len(ids) |-> [id |-> ids[k], arg |-> f.arg, live |-> TRUE]]

\* What a Signal call with no concurrent operation has invoked once its
\* Cleanup is done
QuietLoopInvokesEnabledInOrder ==
  \A x \in Frames :
    (Live(x) /\ FrameOf(x).quiet /\ Iterating(FrameOf(x))) =>
       FrameOf(x).inv = ExpectedInv(FrameOf(x))

\* C3: a Signal call with no concurrent operation is not cut short by a crash
\* and invokes exactly the callbacks of the enabled connections, each once,
\* with the arguments of the call, in ascending id order.
C3_QuietPassInvokesEnabledInOrder ==
  /\ \A x \in Frames : (Live(x) /\ FrameOf(x).quiet) => ~crashed
  /\ QuietLoopInvokesEnabledInOrder

\* C3 witness: f1 and f2 were connected and f1 disconnected; Signal(7), run
\* alone, has finished its loop having invoked f2(7) only.
C3_Witness ==
  \E x \in Frames :
    /\ Live(x) /\ FrameOf(x).quiet
    /\ FrameOf(x).pc = "loop" /\ FrameOf(x).it = End
    /\ connections = {1} /\ on[1]
    /\ FrameOf(x).inv = <<[id |-> 1, arg |-> 7, live |-> TRUE]>>

\* A Disconnect call of thread t returns in this step
DisconnectReturns(t) == call[t].op = "found" /\ call'[t].op = "none"

\* C4: Disconnect(id) is a no-op when id is absent from connections or its
\* entry is already disabled: connections, every on flag and
\* connectionsToRemove are left as they were.
C4_DisconnectNoOp ==
  [][\A t \in Threads :
       (/\ DisconnectReturns(t)
        /\ (call[t].id \notin connections \/ ~on[call[t].id]))
       => UNCHANGED <<connections, on, connectionsToRemove>>
    ]_vars

\* ---- whole calls on an event, run with nothing else in between

EventNow ==
  [connections |-> connections, on |-> on,
   connectionsToRemove |-> connectionsToRemove, signaled |-> signaled]

\* Disconnect(id) from entry to return
DisconnectCall(e, id) ==
  LET it == Find(e.connections, id) IN
  IF it = End THEN e
  ELSE [e EXCEPT !.on = DisconnectStore(@, it),
                 !.connectionsToRemove = DisconnectPush(@, it)]

\* ~Connection of the handle h, as far as the event goes
DropCall(e, h) ==
  IF h.event /\ h.id >= 0 THEN DisconnectCall(e, h.id) ELSE e

\* Cleanup's loop from the i-th iterator of list on: how it can end
RECURSIVE CleanupRuns(_, _, _)
CleanupRuns(conns, list, i) ==
  IF i > Len(list)
  THEN {[crash |-> FALSE, connections |-> conns]}
  ELSE UNION {IF o.crash THEN {o} ELSE CleanupRuns(o.connections, list, i + 1) :
                o \in EraseOutcomes(conns, list[i])}

\* Signal from entry to the end of Cleanup and SetSignaled: how the event can
\* be left (callbacks that do nothing do not change it further)
SignalCall(e) ==
  {[crash |-> r.crash, connections |-> r.connections, on |-> e.on,
    connectionsToRemove |-> IF r.crash THEN e.connectionsToRemove ELSE <<>>,
    signaled |-> IF r.crash THEN e.signaled ELSE TRUE] :
     r \in CleanupRuns(e.connections, e.connectionsToRemove, 1)}

\* No call is in progress
Idle == \A t \in Threads : stack[t] = <<>> /\ call[t].op = "none"

\* C5: destroying the Connection of id leaves the event as Disconnect(id)
\* does, and doing both, in either order, leaves it as doing one of them
\* does, also after the next Signal.
C5_DropEqualsDisconnect ==
  \A id \in Ids :
    (Idle /\ ~crashed /\ handle[id].st = "live") =>
      LET h == handle[id]
          inert == [h EXCEPT !.event = FALSE, !.id = -1]
          one == DisconnectCall(EventNow, id)
          drop == DropCall(EventNow, h)
          discThenDrop == DropCall(one, h)
          dropThenDisc == DisconnectCall(drop, id)
      IN /\ drop = one
         /\ DropCall(drop, inert) = one
         /\ discThenDrop = one
         /\ dropThenDisc = one
         /\ SignalCall(discThenDrop) = SignalCall(one)
         /\ SignalCall(dropThenDisc) = SignalCall(one)

\* The ids in s are in strictly ascending order
StrictlyAscending(s) == \A i, j \in 1 .. Len(s) : i < j => s[i] < s[j]

\* C6: when a callback disconnects its own connection while a Signal call is
\* invoking it, the entry is not erased under the call's iterator, the call
\* goes on to invoke the remaining enabled callbacks in order, and it does
\* not invoke that connection's callback again.
C6_SelfDisconnectSafe ==
  \A x \in Frames :
    (Live(x) /\ FrameOf(x).self /= {}) =>
      LET f == FrameOf(x) IN
      /\ (f.pc = "incb" /\ f.it \in f.self) => f.it \in connections
      /\ \A k \in 1 .. Len(f.inv) : f.inv[k].live
      /\ StrictlyAscending(InvIds(f))
      /\ (f.pc = "loop" /\ f.it = End) =>
           \A k \in connections :
             (on[k] /\ k < f.startNext /\ \E j \in f.self : j < k) =>
                \E n \in 1 .. Len(f.inv) : f.inv[n].id = k

\* A Signal call that has left Cleanup
PastCleanup(f) == f.pc \in {"begin", "loop", "incb", "raised"}

\* C7: ConnectionCount() counts enabled and disabled entries of connections
\* alike: Connect raises it by one, Disconnect does not change it, and after
\* the Cleanup of a Signal call that runs with no concurrent operation it is
\* the number of enabled connections.
C7_ConnectionCount ==
  /\ [](\A x \in Frames :
          (Live(x) /\ FrameOf(x).quiet /\ PastCleanup(FrameOf(x))) =>
             ConnectionCount = Cardinality({k \in connections : on[k]}))
  /\ [][/\ (nextId' = nextId + 1) => ConnectionCount' = ConnectionCount + 1
        /\ (\E t \in Threads : DisconnectReturns(t)) => ConnectionCount' = ConnectionCount
       ]_vars

\* C8: a connection made by Connect while a Signal call is in progress is
\* not invoked by that call.
C8_ConnectNotSeenByRunningSignal ==
  \A x \in Frames :
    (Live(x) /\ record = "starts") =>
      \A k \in 1 .. Len(FrameOf(x).inv) : FrameOf(x).inv[k].id < FrameOf(x).startNext

\* The exception of a callback leaves thread t's innermost Signal in this step
LeavesRaised(t) ==
  /\ At(t, "raised")
  /\ \/ Len(stack'[t]) /= Len(stack[t])
     \/ stack'[t][Len(stack[t])].pc /= "raised"

\* C9: when a callback throws during a Signal call, the call ends with that
\* error at its caller, invokes no further callback, and leaves the state
\* reached before the error (signaled true, the removals done) as it is.
C9_ErrorPropagates ==
  [][\A t \in Threads :
       LeavesRaised(t) =>
         /\ stack'[t] = SubSeq(stack[t], 1, Len(stack[t]) - 1)
         /\ result'[t] = [how |-> "error", at |-> Top(t).it]
         /\ signaled /\ UNCHANGED eventVars
    ]_vars

\* C9 witness: the callback of the first connection threw; Signal has ended
\* with the error, the second connection is enabled and was not invoked, and
\* signaled is true.
C9_Witness ==
  \E t \in Threads :
    /\ result[t] = [how |-> "error", at |-> 0]
    /\ stack[t] = <<>>
    /\ 1 \in connections /\ on[1]
    /\ signaled

\* C10: every id Connect issues differs from every id it issued before, also
\* after the entry of the earlier id has been erased.
C10_IdsNeverReused ==
  \A i, j \in 1 .. Len(issued) : i < j => issued[i].id /= issued[j].id

\* C10 witness: the second Connect was made after the entry of the first id
\* had been erased by Cleanup.
C10_Witness ==
  /\ Len(issued) = 2
  /\ issued[1].id \notin issued[2].present

\* ---- the lock, the removal list and the life of a connection

\* The ids queued in connectionsToRemove
Queued == {connectionsToRemove[i] : i \in 1 .. Len(connectionsToRemove)}

\* C16: outside Cleanup, connectionsToRemove holds only iterators to nodes
\* that are in connections, and each of these nodes has on = false.
C16_QueuedAreDisabledEntries ==
  (mutex = NoHolder) =>
     \A k \in Queued : k \in connections /\ ~on[k]

\* C18: the mutex is held only inside Cleanup, never while a callback runs,
\* and a Disconnect call, made from a callback or from another thread, can
\* always take its next step, whoever holds the mutex.
C18_LockNotHeldInCallback ==
  /\ \A t \in Threads :
       (mutex = t) => (Depth(t) > 0 /\ Top(t).pc \in {"erase", "clear"})
  /\ \A t \in Threads :
       (call[t].op = "found" /\ ~crashed) => ENABLED DisconnectMark(t)

\* C18 witness: the callback of thread t is running and has called
\* Disconnect while the other thread is inside Cleanup, holding the mutex.
C18_Witness ==
  \E t \in Threads :
    /\ Depth(t) > 0 /\ Top(t).pc = "incb"
    /\ call[t].op = "found"
    /\ mutex \in Threads \ {t}
    /\ ~crashed

\* Thread t's Disconnect does its update in this step: the store to on and
\* the push_back
DisconnectUpdates(t) ==
  /\ call[t].op = "found" /\ call[t].it /= End
  /\ call'[t].op = "none"

\* C19: Disconnect's update never happens while another thread is inside
\* Cleanup (between taking the mutex and releasing it after clear()).
C19_DisconnectExcludesCleanup ==
  [][\A t \in Threads :
       DisconnectUpdates(t) => mutex \notin (Threads \ {t})
    ]_vars

\* A Cleanup erases a node in this step, and no other call takes a step
CleanupErases ==
  /\ call' = call
  /\ \E t \in Threads :
       /\ Depth(t) > 0 /\ Top(t).pc = "erase" /\ mutex = t
       /\ Len(stack'[t]) = Len(stack[t])
       /\ stack'[t][Len(stack[t])].ci = Top(t).ci + 1

\* C17: a connection goes from enabled to disabled only in a Disconnect (or
\* in the Disconnect a destroyed Connection makes), is erased only by the
\* Cleanup of a Signal call and only when it is disabled, and an id that is
\* disabled or erased never is enabled or in connections again.
C17_ConnectionLifeCycle ==
  [][\A k \in Ids :
       /\ (on[k] /\ ~on'[k]) =>
            \E t \in Threads : DisconnectUpdates(t) /\ call[t].it = k
       /\ (k \in connections /\ k \notin connections' /\ ~destroyed') =>
            (~on[k] /\ CleanupErases)
       /\ (k < nextId /\ ~on[k]) => ~on'[k]
       /\ (k < nextId /\ k \notin connections) => k \notin connections'
    ]_vars

\* C20: whenever no Disconnect and no Cleanup is in progress, every node of
\* connections with on = false is queued in connectionsToRemove.
C20_NoDisconnectedEntryLost ==
  ((\A t \in Threads : call[t].op = "none") /\ mutex = NoHolder) =>
     \A k \in connections : ~on[k] => k \in Queued

\* ---- handles, the destruction of the event, the signaled flag

\* Thread t enters EventT::Disconnect in this step
EventCallBegins(t) == call[t].op = "none" /\ call'[t].op = "found"

\* A handle that would call its event when revoked or destroyed
Bound(h) == handle[h].st \in {"live", "dtor"} /\ handle[h].event /\ handle[h].id >= 0

\* C11: a handle whose fields are cleared makes no call to the event, and
\* the revocations of one handle, also when two threads race, make one call
\* of Disconnect: a call for a handle begins only when the handle is bound
\* and no call for it is in progress in another thread.
C11_RevokeOnce ==
  [][\A t \in Threads :
       (EventCallBegins(t) /\ call'[t].h /= End) =>
          /\ Bound(call'[t].h)
          /\ \A u \in Threads \ {t} : call[u].h /= call'[t].h
    ]_vars

\* C12: once the event has been destroyed, the revocation or destruction of
\* a handle makes no call into it.
C12_NoCallIntoDestroyedEvent ==
  [][\A t \in Threads : EventCallBegins(t) => ~destroyed]_vars

\* C13: signaled is false at construction and never goes from true to false.
C13_SignaledMonotone ==
  /\ ~signaled
  /\ [][signaled => signaled']_vars

\* C15: no two Connection objects are bound to the same id at once.
C15_OneLiveHandlePerId ==
  \A g, h \in Handles :
    (g /= h /\ Bound(g) /\ Bound(h)) => handle[g].id /= handle[h].id

\* ---- Signal on an event with no enabled connection

\* No node of connections has on = true
NoEnabled == \A k \in connections : ~on[k]

\* Thread t's Signal call runs with no concurrent operation on an event with
\* no enabled connection, and this step is a step of that call
AloneOnDisabled(t) ==
  /\ Depth(t) = 1 /\ stack[t][1].quiet
  /\ NoEnabled
  /\ stack'[t] /= stack[t]
  /\ (stack'[t] = <<>> \/ stack'[t][1].quiet)

====
